---------------------------- MODULE Spec2Model ----------------------------
(***************************************************************************)
(* Personal Finance Manager (src/app.py): a Streamlit script that is run   *)
(* from top to bottom once per user interaction.  The session state holds  *)
(* the transactions DataFrame and edit_idx; the sidebar radio holds menu.  *)
(* Every action below is one complete run of the script for one            *)
(* interaction.  Amounts are integer cents, dates are day numbers.         *)
(***************************************************************************)
EXTENDS Integers, Sequences, FiniteSets, TLC

VARIABLES
    menu,          \* the sidebar radio's selection (app.py:19-22)
    transactions,  \* st.session_state.transactions: [index, rows] (app.py:25-28)
    edit_idx,      \* st.session_state.edit_idx (app.py:31-32)
    widgets,       \* the values of the Dashboard's filter widgets (app.py:89-95)
    event,         \* the interaction that triggered the last run
    view,          \* what the last run of the script rendered
    edit_target    \* history: where the record whose Edit button was pressed is now

vars == <<menu, transactions, edit_idx, widgets, event, view, edit_target>>

\* Longest store explored.
MaxLen == 3

\* edit_idx = None (app.py:32); positions are >= 0.
None == -1
\* history value: the record whose Edit button was pressed has been deleted.
Gone == None - 1

Screens == {"Dashboard", "Add Transaction", "Analytics", "Manage Transactions"}
Types == {"Income", "Expense"}
Categories == {"Food", "Salary"}
Dates == {1, 2}
Columns == {"Date", "Category", "Type", "Amount", "Description"}

Row(d, c, t, a, s) ==
    [Date |-> d, Category |-> c, Type |-> t, Amount |-> a, Description |-> s]

\* The rows of the stores the Dashboard specification starts from: every
\* date, category and type, the amount following the type.
Transactions ==
    {Row(d, c, t, IF t = "Income" THEN 200000 ELSE 4250, "") :
        d \in Dates, c \in Categories, t \in Types}

\* The values submitted in the user-interface specification: the two
\* transactions of the walk-through plus two that cross their fields.
FormInputs ==
    { Row(1, "Food", "Expense", 4250, "lunch"),
      Row(2, "Salary", "Income", 200000, ""),
      Row(2, "Food", "Income", 4250, ""),
      Row(1, "Salary", "Expense", 200000, "") }

-----------------------------------------------------------------------------
(* The pandas DataFrame: a sequence of index labels and the rows they name. *)

RangeIndex(n) == [i \in 1..n |-> i - 1]

EmptyFrame == [index |-> <<>>, rows |-> <<>>]

Empty(df) == Len(df.rows) = 0

HasLabel(df, idx) == \E i \in 1..Len(df.index) : df.index[i] = idx

\* The place of the (first) row labelled idx.
PosOf(df, idx) ==
    CHOOSE i \in 1..Len(df.index) :
        /\ df.index[i] = idx
        /\ \A j \in 1..(i - 1) : df.index[j] # idx

\* df.loc[idx]
Loc(df, idx) == df.rows[PosOf(df, idx)]

RECURSIVE KeepPositions(_, _, _)
KeepPositions(s, keep, i) ==
    IF i > Len(s) THEN <<>>
    ELSE IF i \in keep THEN <<s[i]>> \o KeepPositions(s, keep, i + 1)
    ELSE KeepPositions(s, keep, i + 1)

\* df[mask]: the rows at the positions of keep, labels kept.
Mask(df, keep) ==
    [index |-> KeepPositions(df.index, keep, 1),
     rows  |-> KeepPositions(df.rows, keep, 1)]

\* pd.concat([df, one row], ignore_index=True)
Concat(df, row) ==
    [index |-> RangeIndex(Len(df.rows) + 1), rows |-> Append(df.rows, row)]

\* df.drop(idx): every row labelled idx removed.
Drop(df, idx) == Mask(df, {i \in 1..Len(df.index) : df.index[i] # idx})

\* df.reset_index(drop=True)
ResetIndex(df) == [index |-> RangeIndex(Len(df.rows)), rows |-> df.rows]

\* A row that setting with enlargement creates: every column NaN.
NaNRow == [c \in Columns |-> "NaN"]

\* df.at[idx, col] = value: sets the cell, or, for a label the index does not
\* hold, enlarges the frame by a row labelled idx.
AtSet(df, idx, col, value) ==
    IF HasLabel(df, idx)
    THEN [df EXCEPT !.rows[PosOf(df, idx)][col] = value]
    ELSE [index |-> Append(df.index, idx),
          rows  |-> Append(df.rows, [NaNRow EXCEPT ![col] = value])]

-----------------------------------------------------------------------------
(* The functions of app.py:35-62. *)

\* Variant: the new row is put first.
add_transaction_front(df, row) ==
    [index |-> RangeIndex(Len(df.rows) + 1), rows |-> <<row>> \o df.rows]

add_transaction(df, row) == Concat(df, row)

\* Variant: the row after the one asked for is dropped.
delete_transaction_next(df, idx) == ResetIndex(Drop(df, idx + 1))

delete_transaction(df, idx) == ResetIndex(Drop(df, idx))

update_transaction(df, idx, row) ==
    LET d1 == AtSet(df, idx, "Date", row.Date)
        d2 == AtSet(d1, idx, "Category", row.Category)
        d3 == AtSet(d2, idx, "Type", row.Type)
        d4 == AtSet(d3, idx, "Amount", row.Amount)
    IN  AtSet(d4, idx, "Description", row.Description)


-----------------------------------------------------------------------------
(* The Dashboard's filter and metrics (app.py:98-118). *)

\* Variant: the end date is excluded.
Filter_open_end(df, start_date, end_date, trans_types, selected_categories) ==
    LET d1 == Mask(df, {i \in 1..Len(df.rows) :
                          /\ df.rows[i].Date >= start_date
                          /\ df.rows[i].Date < end_date})
        d2 == Mask(d1, {i \in 1..Len(d1.rows) : d1.rows[i].Type \in trans_types})
    IN  IF selected_categories # {}
        THEN Mask(d2, {i \in 1..Len(d2.rows) :
                          d2.rows[i].Category \in selected_categories})
        ELSE d2

\* Variant: the categories are filtered even when none is selected.
Filter_strict_categories(df, start_date, end_date, trans_types, selected_categories) ==
    LET d1 == Mask(df, {i \in 1..Len(df.rows) :
                          /\ df.rows[i].Date >= start_date
                          /\ df.rows[i].Date <= end_date})
        d2 == Mask(d1, {i \in 1..Len(d1.rows) : d1.rows[i].Type \in trans_types})
    IN  Mask(d2, {i \in 1..Len(d2.rows) :
                     d2.rows[i].Category \in selected_categories})

\* app.py:105-108: the date range, then the types, then the categories,
\* the last only when the selection is not empty.
Filter(df, start_date, end_date, trans_types, selected_categories) ==
    LET d1 == Mask(df, {i \in 1..Len(df.rows) :
                          /\ df.rows[i].Date >= start_date
                          /\ df.rows[i].Date <= end_date})
        d2 == Mask(d1, {i \in 1..Len(d1.rows) : d1.rows[i].Type \in trans_types})
    IN  IF selected_categories # {}
        THEN Mask(d2, {i \in 1..Len(d2.rows) :
                          d2.rows[i].Category \in selected_categories})
        ELSE d2

RECURSIVE SumAmount(_)
SumAmount(rows) ==
    IF rows = <<>> THEN 0 ELSE Head(rows).Amount + SumAmount(Tail(rows))

\* Variant: the rows are not selected by type.
TotalOfType_all(df, t) == SumAmount(df.rows)

\* df[df["Type"] == t]["Amount"].sum()
TotalOfType(df, t) ==
    SumAmount(Mask(df, {i \in 1..Len(df.rows) : df.rows[i].Type = t}).rows)

\* app.py:94: the categories the multiselect offers.
CategoryOptions(df) == {df.rows[i].Category : i \in 1..Len(df.rows)}

-----------------------------------------------------------------------------
(* What one run of the script renders. *)

\* The filter widgets as the user-interface specification leaves them:
\* untouched, and never read, since Apply Filters is not pressed there.
Untouched == [start_date |-> 0, end_date |-> 0, trans_types |-> {},
              selected_categories |-> {}]

\* A row of NaN also stands for "no row" in events and views.
NoRow == NaNRow

\* from: the screen the run started on; row: the row a form submitted.
Event(kind, from, idx, row) == [kind |-> kind, from |-> from, idx |-> idx, row |-> row]

BlankView ==
    [info |-> FALSE, failed |-> FALSE, metrics |-> FALSE, total_income |-> 0,
     total_expense |-> 0, balance |-> 0, shown |-> <<>>, form |-> FALSE,
     current |-> NoRow]

\* app.py:82-132
DashboardView(df0, filter_button, f) ==
    IF ~Empty(df0)
    THEN LET df == IF filter_button
                   THEN Filter(df0, f.start_date, f.end_date, f.trans_types,
                               f.selected_categories)
                   ELSE df0
             total_income == TotalOfType(df, "Income")
             total_expense == TotalOfType(df, "Expense")
         IN  [BlankView EXCEPT !.metrics = TRUE,
                               !.total_income = total_income,
                               !.total_expense = total_expense,
                               !.balance = total_income - total_expense,
                               !.shown = df.rows]
    ELSE [BlankView EXCEPT !.info = TRUE]

\* app.py:135-170: the placeholder, or the charts over the whole store.
AnalyticsView(df0) ==
    IF Empty(df0) THEN [BlankView EXCEPT !.info = TRUE]
    ELSE [BlankView EXCEPT !.shown = df0.rows]

\* app.py:173-214: the placeholder or the list is drawn from the copy df0 taken
\* at the top of the run; the edit form reads the store tx and edit_idx eidx as the buttons of
\* the list left them, and raises KeyError when tx has no row labelled eidx.
ManageView(df0, tx, eidx) ==
    [BlankView EXCEPT !.info = Empty(df0),
                      !.failed = (eidx # None /\ ~HasLabel(tx, eidx)),
                      !.form = (eidx # None /\ HasLabel(tx, eidx)),
                      !.current = IF eidx # None /\ HasLabel(tx, eidx)
                                  THEN Loc(tx, eidx) ELSE NoRow]

\* A run in which no button is pressed.
PlainView(m, tx, eidx) ==
    CASE m = "Dashboard" -> DashboardView(tx, FALSE, Untouched)
      [] m = "Analytics" -> AnalyticsView(tx)
      [] m = "Manage Transactions" -> ManageView(tx, tx, eidx)
      [] OTHER -> BlankView

-----------------------------------------------------------------------------
(* The interactions.  Each is one run of the script; a button press has   *)
(* an effect only in a run that draws the button, which is what the guards *)
(* state.                                                                  *)

Init ==
    /\ menu = "Dashboard"
    /\ transactions = EmptyFrame
    /\ edit_idx = None
    /\ widgets = Untouched
    /\ event = Event("load", "Dashboard", None, NoRow)
    /\ view = DashboardView(EmptyFrame, FALSE, Untouched)
    /\ edit_target = None

\* Variant: leaving Manage Transactions clears edit_idx.
Navigate_discarding(m) ==
    LET eidx == IF menu = "Manage Transactions" /\ m # menu THEN None ELSE edit_idx
    IN  /\ menu' = m
        /\ edit_idx' = eidx
        /\ edit_target' = IF eidx = None THEN None ELSE edit_target
        /\ event' = Event("navigate", menu, None, NoRow)
        /\ view' = PlainView(m, transactions, eidx)
        /\ UNCHANGED <<transactions, widgets>>

\* The sidebar radio is set to m (or any widget that presses no button is
\* touched, m = menu): the script runs for screen m.
Navigate(m) ==
    /\ menu' = m
    /\ event' = Event("navigate", menu, None, NoRow)
    /\ view' = PlainView(m, transactions, edit_idx)
    /\ UNCHANGED <<transactions, edit_idx, widgets, edit_target>>

\* app.py:65-79
AddTransaction(row) ==
    /\ menu = "Add Transaction"
    /\ Len(transactions.rows) < MaxLen
    /\ transactions' = add_transaction(transactions, row)
    /\ event' = Event("add", menu, None, row)
    /\ view' = BlankView
    /\ UNCHANGED <<menu, edit_idx, widgets, edit_target>>

\* app.py:190-191, then the form of app.py:198-212.
Edit(idx) ==
    /\ menu = "Manage Transactions"
    /\ HasLabel(transactions, idx)
    /\ edit_idx' = idx
    /\ edit_target' = PosOf(transactions, idx) - 1
    /\ event' = Event("edit", menu, idx, NoRow)
    /\ view' = ManageView(transactions, transactions, idx)
    /\ UNCHANGED <<menu, transactions, widgets>>

\* app.py:194-195, then the form of app.py:198-212 over the store after the
\* delete.  edit_target follows the record it names.
Delete(idx) ==
    /\ menu = "Manage Transactions"
    /\ HasLabel(transactions, idx)
    /\ transactions' = delete_transaction(transactions, idx)
    /\ edit_target' =
          LET p == PosOf(transactions, idx) - 1
          IN  IF edit_target \in {None, Gone} THEN edit_target
              ELSE IF p = edit_target THEN Gone
              ELSE IF p < edit_target THEN edit_target - 1
              ELSE edit_target
    /\ event' = Event("delete", menu, idx, NoRow)
    /\ view' = ManageView(transactions, transactions', edit_idx)
    /\ UNCHANGED <<menu, edit_idx, widgets>>

\* app.py:212-214: the form is reached only when edit_idx names a row.
Update(row) ==
    /\ menu = "Manage Transactions"
    /\ edit_idx # None
    /\ HasLabel(transactions, edit_idx)
    /\ transactions' = update_transaction(transactions, edit_idx, row)
    /\ edit_idx' = None
    /\ edit_target' = None
    /\ event' = Event("update", menu, edit_idx, row)
    /\ view' = ManageView(transactions, transactions, edit_idx)
    /\ UNCHANGED <<menu, widgets>>

Next ==
    \/ \E m \in Screens : Navigate(m)
    \/ \E row \in FormInputs : AddTransaction(row)
    \/ \E idx \in 0..(MaxLen - 1) : Edit(idx)
    \/ \E idx \in 0..(MaxLen - 1) : Delete(idx)
    \/ \E row \in FormInputs : Update(row)

Spec == Init /\ [][Next]_vars

-----------------------------------------------------------------------------
(* The Dashboard over every store: the store and the values of the filter  *)
(* widgets are drawn at the start, and Apply Filters is pressed.           *)

\* The stores of at most n rows of S, as add_transaction builds them.
Frames(S, n) ==
    {[index |-> RangeIndex(Len(rows)), rows |-> rows] :
        rows \in UNION {[1..k -> S] : k \in 0..n}}

\* app.py:89-95: the dates, the types and the offered categories selected.
WidgetValues(df) ==
    [start_date : Dates, end_date : Dates, trans_types : SUBSET Types,
     selected_categories : SUBSET CategoryOptions(df)]

InitDashboard ==
    /\ menu = "Dashboard"
    /\ transactions \in Frames(Transactions, MaxLen)
    /\ edit_idx = None
    /\ widgets \in WidgetValues(transactions)
    /\ event = Event("navigate", "Dashboard", None, NoRow)
    /\ view = DashboardView(transactions, FALSE, widgets)
    /\ edit_target = None

\* app.py:96-132 with filter_button pressed.
ApplyFilters ==
    /\ menu = "Dashboard"
    /\ event' = Event("filter", menu, None, NoRow)
    /\ view' = DashboardView(transactions, TRUE, widgets)
    /\ UNCHANGED <<menu, transactions, edit_idx, widgets, edit_target>>

NextDashboard == ApplyFilters

SpecDashboard == InitDashboard /\ [][NextDashboard]_vars

-----------------------------------------------------------------------------
(* The store's three functions called directly, at any position. *)

CallAdd(row) ==
    /\ Len(transactions.rows) < MaxLen
    /\ transactions' = add_transaction(transactions, row)
    /\ event' = Event("call_add", menu, None, row)
    /\ UNCHANGED <<menu, edit_idx, widgets, view, edit_target>>

\* app.py:50: drop raises KeyError for a label the index does not hold,
\* before anything is changed.
CallDelete(idx) ==
    /\ transactions' = IF HasLabel(transactions, idx)
                       THEN delete_transaction(transactions, idx)
                       ELSE transactions
    /\ event' = Event("call_delete", menu, idx, NoRow)
    /\ UNCHANGED <<menu, edit_idx, widgets, view, edit_target>>

\* app.py:54-62; the store is not let grow beyond MaxLen rows.
CallUpdate(idx, row) ==
    /\ HasLabel(transactions, idx) \/ Len(transactions.rows) < MaxLen
    /\ transactions' = update_transaction(transactions, idx, row)
    /\ edit_idx' = None
    /\ event' = Event("call_update", menu, idx, row)
    /\ UNCHANGED <<menu, widgets, view, edit_target>>

NextStore ==
    \/ \E row \in FormInputs : CallAdd(row)
    \/ \E idx \in 0..MaxLen : CallDelete(idx)
    \/ \E idx \in 0..MaxLen, row \in FormInputs : CallUpdate(idx, row)

SpecStore == Init /\ [][NextStore]_vars

-----------------------------------------------------------------------------
(* The properties. *)

Manage == "Manage Transactions"

\* The sum of the amounts of the first n rows that are of type t.
RECURSIVE SumUpTo(_, _, _)
SumUpTo(rows, t, n) ==
    IF n = 0 THEN 0
    ELSE (IF rows[n].Type = t THEN rows[n].Amount ELSE 0) + SumUpTo(rows, t, n - 1)

FoodRow == Row(1, "Food", "Expense", 4250, "lunch")
SalaryRow == Row(2, "Salary", "Income", 200000, "")

\* C1: a Delete of the row at position i of the store removes exactly that
\* row: the store is one shorter, the rows before i keep place and content,
\* and each row after i is one place lower with its content unchanged.
C1_DeleteCompacts ==
    [][event'.kind = "delete" =>
        LET old == transactions.rows
            new == transactions'.rows
            i == event'.idx + 1
        IN  /\ i \in 1..Len(old)
            /\ Len(new) = Len(old) - 1
            /\ \A j \in 1..(i - 1) : new[j] = old[j]
            /\ \A j \in (i + 1)..Len(old) : new[j - 1] = old[j]
            /\ transactions'.index = RangeIndex(Len(new))]_vars

\* The middle row of a store of three distinct rows has been deleted.
C1_Witness ==
    /\ event.kind = "delete"
    /\ event.idx = 1
    /\ Len(transactions.rows) = 2
    /\ transactions.rows[1] # transactions.rows[2]

\* C2: adding t makes the store one longer, with t last and the earlier rows
\* as they were, in the same order.
C2_AppendLast ==
    [][event'.kind = "add" =>
        LET old == transactions.rows
            new == transactions'.rows
        IN  /\ Len(new) = Len(old) + 1
            /\ new[Len(new)] = event'.row
            /\ \A j \in 1..Len(old) : new[j] = old[j]]_vars

\* A third row, different from the first, has been added.
C2_Witness ==
    /\ event.kind = "add"
    /\ Len(transactions.rows) = 3
    /\ transactions.rows[3] = event.row
    /\ transactions.rows[1] # transactions.rows[3]

\* C3: a run of the Dashboard, Analytics or Manage Transactions screen that
\* finds the store empty renders the placeholder and does not fail.  (The
\* run of a Delete finds the store as it was before the delete.)
C3_EmptyStorePlaceholder ==
    (/\ Empty(transactions)
     /\ menu \in {"Dashboard", "Analytics", Manage}
     /\ event.kind # "delete")
        => (view.info /\ ~view.failed)

\* C4 as claimed: Edit sets editing to the row's position, Update clears it,
\* and Manage Transactions entered from another screen has editing = None
\* and shows no edit form.
C4_DiscardedOnNavigation ==
    [][/\ event'.kind = "edit" => edit_idx' = event'.idx
       /\ event'.kind = "update" => edit_idx' = None
       /\ (menu # Manage /\ menu' = Manage) => (edit_idx' = None /\ ~view'.form)]_vars

\* C4 as amended: Edit sets editing to the row's position, Update clears it,
\* and navigation leaves editing as it is: Manage Transactions entered with
\* editing = Some(p) shows the edit form for the row at p when the store has
\* one, and fails at the form's read of that row when it has none.
C4_KeptOnNavigation ==
    [][/\ event'.kind = "edit" => edit_idx' = event'.idx
       /\ event'.kind = "update" => edit_idx' = None
       /\ event'.kind = "navigate" =>
            /\ edit_idx' = edit_idx
            /\ (menu' = Manage /\ edit_idx # None) =>
                  IF edit_idx \in 0..(Len(transactions.rows) - 1)
                  THEN /\ view'.form
                       /\ view'.current = transactions.rows[edit_idx + 1]
                  ELSE ~view'.form /\ view'.failed]_vars

\* Manage Transactions has been entered from another screen with an edit
\* in progress, and the edit form is shown.
C4_Witness ==
    /\ menu = Manage
    /\ event.kind = "navigate"
    /\ event.from # Manage
    /\ edit_idx # None
    /\ view.form

\* The policy of the filter, over the values of the filter widgets.
Kept(r) ==
    /\ widgets.start_date <= r.Date
    /\ r.Date <= widgets.end_date
    /\ r.Type \in widgets.trans_types
    /\ (widgets.selected_categories = {} \/ r.Category \in widgets.selected_categories)

\* C5: Apply Filters keeps a row iff its date is in [start_date, end_date],
\* its type is selected, and no category is selected or its category is; the
\* kept rows are in store order.
C5_FilterPolicy ==
    event.kind = "filter" => view.shown = SelectSeq(transactions.rows, Kept)

\* Filters with a category selected have kept one row of three and dropped
\* the other two.
C5_Witness ==
    /\ event.kind = "filter"
    /\ Len(transactions.rows) = 3
    /\ widgets.selected_categories # {}
    /\ Len(view.shown) = 1
    /\ view.shown[1] = transactions.rows[2]

\* C6 as claimed: Apply Filters with no category selected on a store that is
\* not empty displays no transaction and counts none in the totals.
C6_EmptySelectionShowsNothing ==
    (/\ event.kind = "filter"
     /\ ~Empty(transactions)
     /\ widgets.selected_categories = {})
        => (view.shown = <<>> /\ view.total_income = 0 /\ view.total_expense = 0)

\* In the date range and of a selected type.
InDatesAndTypes(r) ==
    /\ widgets.start_date <= r.Date
    /\ r.Date <= widgets.end_date
    /\ r.Type \in widgets.trans_types

\* C6 as amended: Apply Filters with no category selected restricts no
\* category: the rows displayed and counted in the totals are those in the
\* date range and of a selected type.
C6_EmptySelectionRestrictsNothing ==
    (/\ event.kind = "filter"
     /\ ~Empty(transactions)
     /\ widgets.selected_categories = {})
        => LET kept == SelectSeq(transactions.rows, InDatesAndTypes)
           IN  /\ view.shown = kept
               /\ view.total_income = SumUpTo(kept, "Income", Len(kept))
               /\ view.total_expense = SumUpTo(kept, "Expense", Len(kept))

\* Filters with no category selected display rows of both categories.
C6_Witness ==
    /\ event.kind = "filter"
    /\ widgets.selected_categories = {}
    /\ \E i, j \in 1..Len(view.shown) :
          view.shown[i].Category # view.shown[j].Category
    /\ view.total_income > 0

\* C7: update_transaction called with a position the store does not hold
\* leaves the store as it was: the same length, the same rows.
C7_UpdateOutOfRangeNoOp ==
    [][(/\ event'.kind = "call_update"
        /\ event'.idx \notin 0..(Len(transactions.rows) - 1))
          => transactions' = transactions]_vars

\* C8: the Dashboard without filters shows the placeholder and no metrics iff
\* the store is empty, and otherwise Total Income and Total Expense are the
\* sums of the amounts of the Income and of the Expense rows of the store and
\* Balance is their difference; with only the Salary row left in the store,
\* it is at position 0 and Total Expense is 0.
C8_DashboardTotals ==
    (menu = "Dashboard" /\ event.kind \in {"load", "navigate"}) =>
        LET rows == transactions.rows
        IN  /\ view.info <=> rows = <<>>
            /\ view.metrics <=> rows # <<>>
            /\ rows # <<>> =>
                  /\ view.total_income = SumUpTo(rows, "Income", Len(rows))
                  /\ view.total_expense = SumUpTo(rows, "Expense", Len(rows))
                  /\ view.balance = view.total_income - view.total_expense
            /\ rows = <<SalaryRow>> =>
                  /\ transactions.index = <<0>>
                  /\ view.total_expense = 0
                  /\ view.total_income = 200000

\* The Dashboard over a store of an Expense and two Incomes.
C8_Witness ==
    /\ menu = "Dashboard"
    /\ event.kind = "navigate"
    /\ transactions.rows = <<FoodRow, SalaryRow, SalaryRow>>
    /\ view.metrics
    /\ view.total_expense = 4250
    /\ view.balance = 395750

\* C9: whenever Manage Transactions is rendered with editing = Some(p), the
\* store has a row at position p, and the edit form's read does not fail.
C9_EditingInRange ==
    (menu = Manage /\ edit_idx # None) =>
        (edit_idx \in 0..(Len(transactions.rows) - 1) /\ ~view.failed)

\* C10: submitting the edit form overwrites the row on which Edit was
\* invoked (while that row is still in the store), wherever the deletes
\* since have moved it, with the submitted values, and leaves every other
\* row of the store as it was.
C10_UpdateHitsEditedRow ==
    [][(event'.kind = "update" /\ edit_target # Gone) =>
        LET old == transactions.rows
            new == transactions'.rows
        IN  /\ edit_target \in 0..(Len(old) - 1)
            /\ Len(new) = Len(old)
            /\ new[edit_target + 1] = event'.row
            /\ \A j \in 1..Len(old) : j # edit_target + 1 => new[j] = old[j]]_vars

=============================================================================
